---- MODULE Spec2Model ----
(***************************************************************************)
(* Payment settlement and reconciliation of the rentals backend.           *)
(*                                                                         *)
(* The model follows the two webhook paths of the source:                  *)
(*   - webhooks.nowpayments_webhook (POST /webhooks/nowpayments), which    *)
(*     reconciles a provider event against a Booking;                      *)
(*   - invoices.handle_webhook (POST /invoices/webhooks/{provider}), which *)
(*     logs the delivery and hands it to PaymentService.process_webhook    *)
(*     and the provider adapters, which reconcile against an Invoice;      *)
(* and the operations that create or change the rows those paths read:     *)
(* bookings.update_booking_status, payments.create_payment and             *)
(* invoices.create_invoice; then webhooks.izipay_webhook, the second       *)
(* booking webhook, invoices.update_invoice, payments.approve_payment and  *)
(* reject_payment, debtors.create_debtor and debtors.complete_rental.      *)
(*                                                                         *)
(* A handler is a sequence of database calls. Each call is one step of a   *)
(* step operator (NowStep, InvStep); a handler run is the iteration of its *)
(* step operator to completion.  Spec runs every handler as one atomic     *)
(* action; SpecConc interleaves the steps of concurrent deliveries.        *)
(* A database call may raise: `failAt` names the call that raises.         *)
(* The helpers fetch_one / execute_query are taken to behave as their      *)
(* docstrings in app/database.py say (the tests patch them the same way).  *)
(***************************************************************************)
EXTENDS Integers, Sequences, FiniteSets, TLC

VARIABLES
    process_status,   \* catalog table process_status: the set of codes it holds
    bookings,         \* table bookings: BookingIds -> [payment_status, status_id]
    debtors,          \* table debtors: sequence of rows, id = index
    payments,         \* table payments: sequence of rows, id = index
    payment_details,  \* table payment_details: sequence of rows
    notifications,    \* table notifications: sequence of rows
    invoices,         \* table invoices: sequence of rows, id = index
    webhook_logs,     \* table webhook_logs: sequence of rows, id = index
    now,              \* the clock read by datetime.now()
    procs,            \* in-flight webhook deliveries (SpecConc): Workers -> local state
    last,             \* the request handled by the latest completed operation, and its response
    faults            \* database calls that may still raise

vars == <<process_status, bookings, debtors, payments, payment_details,
          notifications, invoices, webhook_logs, now, procs, last, faults>>

-----------------------------------------------------------------------------
(* Bounds of the model *)

MaxOps == 3        \* operations in one run of the booking path (Spec, SpecFaulty)
MaxInvOps == 4     \* operations in one run of the invoice path (SpecInv)
MaxFaults == 1     \* database calls that raise in one run (SpecFaulty)
MaxDeliveries == 2 \* deliveries in one run in which calls may raise (SpecNotify)
MaxAuditOps == 2   \* deliveries in one run in which calls may raise (SpecAudit)

-----------------------------------------------------------------------------
(* Rows that the reconciliation paths only read: users, units, bookings'   *)
(* immutable columns.                                                      *)

Users == {"guest", "owner"}
Units == {"unt_1"}
BookingIds == {"bkg_1", "bkg_2"}
\* a public id no booking / invoice carries
UnknownId == "bkg_9"
NoId == 0

UserEmail == [u \in Users |-> IF u = "guest" THEN "guest@mail" ELSE "owner@mail"]
UnitOwner == [u \in Units |-> "owner"]
UnitMonthlyRent == [u \in Units |-> 10000]

\* bkg_1 is booked by a guest, bkg_2 by the owner of the unit
BookingGuest == [b \in BookingIds |-> IF b = "bkg_1" THEN "guest" ELSE "owner"]
BookingUnit == [b \in BookingIds |-> "unt_1"]
BookingTotal == [b \in BookingIds |-> 10000]

\* amounts in cents
Amounts == {9000, 9960, 10000}
\* the amounts create_payment is called with
PayAmounts == {9000, 10000}

AllStatusCodes == {"PENDING", "PAID", "FAILED", "BOOKING_PENDING", "BOOKING_CONFIRMED",
                   "BOOKING_CANCELLED", "BOOKING_COMPLETED"}

\* supabase.table('process_status').select('id').eq('code', c): the id, or
\* None when the catalog has no such row
StatusId(catalog, c) == IF c \in catalog THEN c ELSE "NULL"

Max(a, b) == IF a >= b THEN a ELSE b

-----------------------------------------------------------------------------
(* The database as one value, so that handlers are operators on it *)

DB == [process_status |-> process_status, bookings |-> bookings,
       debtors |-> debtors, payments |-> payments,
       payment_details |-> payment_details, notifications |-> notifications,
       invoices |-> invoices, webhook_logs |-> webhook_logs, now |-> now]

\* the rows of a table whose ids are in hits, as the ascending list of ids
RECURSIVE Matching(_, _, _)
Matching(rows, hits, i) ==
    IF i > Len(rows) THEN <<>>
    ELSE (IF i \in hits THEN <<i>> ELSE <<>>) \o Matching(rows, hits, i + 1)

\* select ... eq('property_id', p).eq('email', e)
DebtorsByPropertyEmail(D, p, e) ==
    Matching(D.debtors,
             {k \in 1..Len(D.debtors) :
                 D.debtors[k].property_id = p /\ D.debtors[k].email = e}, 1)

\* select ... eq('property_id', p).eq('email', e).eq('owner_id', o)
DebtorsByPropertyEmailOwner(D, p, e, o) ==
    Matching(D.debtors,
             {k \in 1..Len(D.debtors) :
                 /\ D.debtors[k].property_id = p
                 /\ D.debtors[k].email = e
                 /\ D.debtors[k].owner_id = o}, 1)

-----------------------------------------------------------------------------
(* webhooks.nowpayments_webhook: one provider event against one Booking *)

\* the order references a delivery carries: prefix and first part
\* (the simulator's demo_ orders, which never reach a booking, are left out)
DeliveredOrders ==
    { [prefix |-> "", ref |-> "bkg_1"], [prefix |-> "ALQ", ref |-> "unt_1"],
      [prefix |-> "", ref |-> UnknownId], [prefix |-> "other", ref |-> "inv_1"] }

NowStatuses == {"finished", "failed", "cancelled", "confirming", "waiting"}

\* bookings of a unit ordered by created_at desc, limit 1: bkg_2 is the
\* later booking
LatestBookingOfUnit(D, unit) ==
    IF \E b \in DOMAIN D.bookings : BookingUnit[b] = unit
    THEN IF "bkg_2" \in DOMAIN D.bookings /\ BookingUnit["bkg_2"] = unit
         THEN "bkg_2" ELSE "bkg_1"
    ELSE "NULL"

\* booking_public_id extracted from order_id, "NULL" for None
ExtractBookingPublicId(D, order) ==
    IF order.prefix = "ALQ"
    THEN IF order.ref \in {"bkg_1", "bkg_2", UnknownId} THEN order.ref
         ELSE IF order.ref \in Units THEN LatestBookingOfUnit(D, order.ref)
         ELSE "NULL"
    ELSE IF order.prefix = "" /\ order.ref \in {"bkg_1", "bkg_2", UnknownId}
         THEN order.ref
    ELSE "NULL"

\* new_payment_status from request.payment_status
NowNewPaymentStatus(payment_status) ==
    CASE payment_status = "finished"   -> "PAID"
      [] payment_status = "failed"     -> "FAILED"
      [] payment_status = "cancelled"  -> "CANCELLED"
      [] payment_status = "confirming" -> "CONFIRMING"
      [] OTHER                         -> "PENDING"

\* new_booking_status from request.payment_status: a process_status id, or
\* "NULL" when the branch sets none or the catalog has no such code
NowNewBookingStatus(catalog, payment_status) ==
    CASE payment_status = "finished"  -> StatusId(catalog, "BOOKING_CONFIRMED")
      [] payment_status = "failed"    -> StatusId(catalog, "BOOKING_CANCELLED")
      [] payment_status = "cancelled" -> StatusId(catalog, "BOOKING_CANCELLED")
      [] OTHER                        -> "NULL"

\* update_data applied to the booking row
NowUpdateBooking(catalog, row, payment_status) ==
    LET nb == NowNewBookingStatus(catalog, payment_status)
    IN  [row EXCEPT !.payment_status = NowNewPaymentStatus(payment_status),
                    !.status_id = IF nb # "NULL" THEN nb ELSE @]

Resp(http, status) == [http |-> http, status |-> status]

\* the local variables of one delivery when the handler is entered
NowStart(req) ==
    [op |-> "nowpayments_webhook", pc |-> "find_booking", req |-> req,
     booking |-> "NULL", debtor_id |-> NoId, user_debtor_id |-> NoId,
     payment_id |-> NoId, resp |-> Resp(0, "none")]

NewDebtor(unit, email, owner, rent, debt, st) ==
    [property_id |-> unit, email |-> email, owner_id |-> owner,
     monthly_rent |-> rent, debt_amount |-> debt, status |-> st]

NewPayment(debtor, amount, st, ref, t) ==
    [debtor_id |-> debtor, amount |-> amount, status_id |-> st,
     reference |-> ref, paid_at |-> t]

\* the notification block raised: except Exception as notification_error
\* logs it, and the handler returns its success body
NotifyRaisedAnswers500(D, L) ==
    [db |-> D, loc |-> [L EXCEPT !.pc = "done", !.resp = Resp(500, "error")]]

NotifyRaised(D, L) ==
    [db |-> D, loc |-> [L EXCEPT !.pc = "done", !.resp = Resp(200, "success")]]

\* One database call (with the Python around it) of nowpayments_webhook.
\* fail = TRUE: the call raises.
NowStep(D, L, fail) ==
    LET req == L.req
        b == L.booking
        guest == BookingGuest[b]
        unit == BookingUnit[b]
        email == UserEmail[guest]
        goto(pc) == [db |-> D, loc |-> [L EXCEPT !.pc = pc]]
        \* except Exception as e: raise HTTPException(500)
        outer == [db |-> D, loc |-> [L EXCEPT !.pc = "done", !.resp = Resp(500, "error")]]
        \* except Exception as payment_error: logged, the webhook goes on
        inner == [db |-> D, loc |-> [L EXCEPT !.pc = "notify"]]
    IN
    CASE L.pc = "find_booking" ->
           IF fail THEN outer
           ELSE LET id == ExtractBookingPublicId(D, req.order)
                IN  IF id = "NULL" \/ id \notin DOMAIN D.bookings
                    THEN outer   \* HTTPException 400 / 404, caught by the outer except
                    ELSE [db |-> D, loc |-> [L EXCEPT !.pc = "update_booking", !.booking = id]]
      [] L.pc = "update_booking" ->
           IF fail THEN outer
           ELSE [db |-> [D EXCEPT !.bookings[b] =
                            NowUpdateBooking(D.process_status, @, req.payment_status)],
                 loc |-> [L EXCEPT !.pc = IF req.payment_status = "finished"
                                          THEN "find_debtor" ELSE "notify"]]
      [] L.pc = "find_debtor" ->
           IF fail THEN inner
           ELSE LET found == DebtorsByPropertyEmail(D, unit, email)
                IN  IF found # <<>>
                    THEN [db |-> D, loc |-> [L EXCEPT !.pc = "find_user_debtor",
                                                      !.debtor_id = found[1]]]
                    ELSE goto("insert_debtor")
      [] L.pc = "insert_debtor" ->
           IF fail THEN inner
           ELSE [db |-> [D EXCEPT !.debtors = Append(@,
                            NewDebtor(unit, email, UnitOwner[unit], BookingTotal[b], 0, "current"))],
                 loc |-> [L EXCEPT !.pc = "find_user_debtor",
                                   !.debtor_id = Len(D.debtors) + 1]]
      [] L.pc = "find_user_debtor" ->
           IF fail THEN inner
           ELSE LET found == DebtorsByPropertyEmailOwner(D, unit, email, guest)
                IN  IF found # <<>>
                    THEN [db |-> D, loc |-> [L EXCEPT !.pc = "insert_payment",
                                                      !.user_debtor_id = found[1]]]
                    ELSE goto("insert_user_debtor")
      [] L.pc = "insert_user_debtor" ->
           IF fail THEN inner
           ELSE [db |-> [D EXCEPT !.debtors = Append(@,
                            NewDebtor(unit, email, guest, BookingTotal[b], 0, "current"))],
                 loc |-> [L EXCEPT !.pc = "insert_payment",
                                   !.user_debtor_id = Len(D.debtors) + 1]]
      [] L.pc = "insert_payment" ->
           IF L.debtor_id = NoId THEN goto("notify")
           ELSE IF fail THEN inner
           ELSE [db |-> [D EXCEPT !.payments = Append(@,
                            NewPayment(L.debtor_id, BookingTotal[b],
                                       StatusId(D.process_status, "PAID"), req.order.ref, D.now))],
                 loc |-> [L EXCEPT !.pc = "insert_details",
                                   !.payment_id = Len(D.payments) + 1]]
      [] L.pc = "insert_details" ->
           IF fail THEN inner
           ELSE [db |-> [D EXCEPT !.payment_details = Append(@,
                            [payment_id |-> L.payment_id, external_reference |-> req.order.ref])],
                 loc |-> [L EXCEPT !.pc = IF L.user_debtor_id # NoId
                                          THEN "insert_user_payment" ELSE "notify"]]
      [] L.pc = "insert_user_payment" ->
           IF fail THEN inner
           ELSE [db |-> [D EXCEPT !.payments = Append(@,
                            NewPayment(L.user_debtor_id, BookingTotal[b],
                                       StatusId(D.process_status, "PAID"), req.order.ref, D.now))],
                 loc |-> [L EXCEPT !.pc = "insert_user_details",
                                   !.payment_id = Len(D.payments) + 1]]
      [] L.pc = "insert_user_details" ->
           IF fail THEN inner
           ELSE [db |-> [D EXCEPT !.payment_details = Append(@,
                            [payment_id |-> L.payment_id, external_reference |-> req.order.ref])],
                 loc |-> [L EXCEPT !.pc = "notify"]]
      [] L.pc = "notify" ->
           LET ok == [L EXCEPT !.pc = "done", !.resp = Resp(200, "success")]
           IN  IF req.payment_status # "finished" THEN [db |-> D, loc |-> ok]
               ELSE IF fail THEN NotifyRaised(D, L)
               ELSE [db |-> [D EXCEPT !.notifications = Append(@,
                                [booking |-> b, payment |-> req.order.ref, user_id |-> guest])],
                     loc |-> ok]
      [] OTHER -> [db |-> D, loc |-> L]

\* the database calls of nowpayments_webhook, in program order
NowCalls == {"find_booking", "update_booking", "find_debtor", "insert_debtor",
             "find_user_debtor", "insert_user_debtor", "insert_payment",
             "insert_details", "insert_user_payment", "insert_user_details", "notify"}

-----------------------------------------------------------------------------
(* invoices.handle_webhook, PaymentService.process_webhook and the provider *)
(* adapters: one provider event against one Invoice                         *)

\* PaymentService.providers with one more name registered
ProvidersWithPaypal == {"nowpayments", "mercadopago", "izipay", "paypal"}

Providers == {"nowpayments", "mercadopago", "izipay"}
\* a provider name PaymentService.providers does not hold
UnknownProvider == "paypal"

\* order_id values of a payload: an invoice public id (the index of the
\* row), a public id no invoice carries, or no order_id at all
UnknownInvoice == 9

InvStatuses == {"finished", "failed", "expired", "waiting"}

InvStart(req) ==
    [op |-> "handle_webhook", pc |-> "log", req |-> req, log_id |-> NoId,
     invoice |-> NoId, paid_at |-> NoId, result |-> "none", new_status |-> "none",
     writes |-> 0, exc |-> "none", resp |-> Resp(0, "none")]

\* new_status with 'failed' taken for 'expired'
InvNewStatusFailedAsExpired(payment_status) ==
    CASE payment_status = "finished" -> "PAID"
      [] payment_status = "failed"   -> "EXPIRED"
      [] payment_status = "expired"  -> "EXPIRED"
      [] OTHER                       -> "PENDING"

\* new_status of NOWPaymentsProvider.process_webhook
InvNewStatus(payment_status) ==
    CASE payment_status = "finished" -> "PAID"
      [] payment_status = "failed"   -> "FAILED"
      [] payment_status = "expired"  -> "EXPIRED"
      [] OTHER                       -> "PENDING"

\* UPDATE webhook_logs SET processed = true, with the flag left as it was
MarkProcessedKeepsFlag(row) == row

\* UPDATE webhook_logs SET processed = true WHERE id = log_result['id']
MarkProcessed(row) == [row EXCEPT !.processed = TRUE]

\* UPDATE webhook_logs SET error_message = str(e) WHERE id = log_result['id']
LogError(row) == [row EXCEPT !.error_message = TRUE]

\* One database call (with the Python around it) of handle_webhook and the
\* adapter it dispatches to.  fail = TRUE: the call raises.
InvStep(D, L, fail) ==
    LET req == L.req
        goto(pc) == [db |-> D, loc |-> [L EXCEPT !.pc = pc]]
        \* the adapter returned: result is its "status", ns its "new_status"
        returned(r, ns) == [db |-> D, loc |-> [L EXCEPT !.pc = "mark_processed",
                                                        !.result = r, !.new_status = ns]]
        \* except Exception as e: in handle_webhook; e is the exception raised
        caught(e) == [db |-> D,
                      loc |-> [L EXCEPT !.pc = IF L.log_id # NoId THEN "log_error" ELSE "done",
                                        !.exc = e,
                                        !.resp = IF L.log_id # NoId THEN @ ELSE Resp(200, "error")]]
        raised == caught("Exception")
    IN
    CASE L.pc = "log" ->
           IF fail THEN raised
           ELSE [db |-> [D EXCEPT !.webhook_logs = Append(@,
                            [provider |-> req.provider, processed |-> FALSE,
                             error_message |-> FALSE])],
                 loc |-> [L EXCEPT !.pc = "dispatch", !.log_id = Len(D.webhook_logs) + 1]]
      [] L.pc = "dispatch" ->
           \* PaymentService.process_webhook: no database call, cannot fail here
           IF req.provider \notin Providers THEN caught("ValueError")
           ELSE IF req.provider = "mercadopago"
                THEN returned(IF req.order = NoId THEN "ignored" ELSE "processed", "none")
           ELSE IF req.provider = "izipay" THEN returned("processed", "none")
           ELSE IF req.order = NoId THEN returned("ignored", "none")
           ELSE goto("find_invoice")
      [] L.pc = "find_invoice" ->
           IF fail THEN raised
           ELSE IF req.order \notin 1..Len(D.invoices) THEN returned("ignored", "none")
           ELSE IF req.payment_status \in {"finished", "failed", "expired"}
                THEN [db |-> D, loc |-> [L EXCEPT !.pc = "update_invoice",
                                                  !.invoice = req.order]]
           ELSE returned("processed", InvNewStatus(req.payment_status))
      [] L.pc = "update_invoice" ->
           IF fail THEN raised
           ELSE [db |-> [D EXCEPT !.invoices[L.invoice] =
                            [@ EXCEPT !.status = InvNewStatus(req.payment_status),
                                      !.paid_at = IF req.payment_status = "finished"
                                                  THEN D.now ELSE @]],
                 loc |-> IF req.payment_status = "finished"
                         THEN [L EXCEPT !.pc = "update_payment", !.paid_at = D.now,
                                        !.writes = @ + 1]
                         ELSE [L EXCEPT !.pc = "mark_processed", !.result = "processed",
                                        !.new_status = InvNewStatus(req.payment_status),
                                        !.writes = @ + 1]]
      [] L.pc = "update_payment" ->
           IF fail THEN raised
           ELSE LET pid == D.invoices[L.invoice].payment_id
                IN  [db |-> [D EXCEPT !.payments[pid] =
                                [@ EXCEPT !.status_id = StatusId(D.process_status, "PAID"),
                                          !.paid_at = L.paid_at]],
                     loc |-> [L EXCEPT !.pc = "mark_processed", !.result = "processed",
                                       !.new_status = InvNewStatus(req.payment_status),
                                       !.writes = @ + 1]]
      [] L.pc = "mark_processed" ->
           IF fail THEN raised
           ELSE [db |-> [D EXCEPT !.webhook_logs[L.log_id] = MarkProcessed(@)],
                 loc |-> [L EXCEPT !.pc = "done", !.resp = Resp(200, "ok")]]
      [] L.pc = "log_error" ->
           IF fail
           THEN \* raised inside the except block: the framework answers 500
                [db |-> D, loc |-> [L EXCEPT !.pc = "done", !.resp = Resp(500, "error")]]
           ELSE [db |-> [D EXCEPT !.webhook_logs[L.log_id] = LogError(@)],
                 loc |-> [L EXCEPT !.pc = "done", !.resp = Resp(200, "error")]]
      [] OTHER -> [db |-> D, loc |-> L]

InvCalls == {"log", "find_invoice", "update_invoice", "update_payment",
             "mark_processed", "log_error"}

-----------------------------------------------------------------------------
(* bookings.update_booking_status *)

\* status_mapping.get(request.status, request.status)
StatusMapping(st) ==
    CASE st = "PENDING"     -> "BOOKING_PENDING"
      [] st = "APPROVED"    -> "BOOKING_CONFIRMED"
      [] st = "REJECTED"    -> "BOOKING_CANCELLED"
      [] st = "CONFIRMED"   -> "BOOKING_CONFIRMED"
      [] st = "CANCELLED"   -> "BOOKING_CANCELLED"
      [] st = "COMPLETED"   -> "BOOKING_COMPLETED"
      [] st = "IN_PROGRESS" -> "BOOKING_CONFIRMED"
      [] OTHER              -> st

BookStart(req) ==
    [op |-> "update_booking_status", pc |-> "find_booking", req |-> req,
     debtor_id |-> NoId, debt |-> 0, resp |-> Resp(0, "none")]

\* One database call (with the Python around it) of update_booking_status.
BookStep(D, L, fail) ==
    LET req == L.req
        b == req.booking
        code == StatusMapping(req.status)
        unit == BookingUnit[b]
        email == UserEmail[BookingGuest[b]]
        answer(http, st) == [db |-> D, loc |-> [L EXCEPT !.pc = "done", !.resp = Resp(http, st)]]
        \* except Exception as e: logged, the booking update stands
        inner == [db |-> D, loc |-> [L EXCEPT !.pc = "done", !.resp = Resp(200, "success")]]
    IN
    CASE L.pc = "find_booking" ->
           IF fail THEN [db |-> D, loc |-> [L EXCEPT !.pc = "done", !.resp = Resp(500, "error")]]
           ELSE IF StatusId(D.process_status, code) = "NULL" THEN answer(400, "error")
           ELSE IF b \notin DOMAIN D.bookings THEN answer(404, "error")
           ELSE IF UnitOwner[unit] # req.caller THEN answer(403, "error")
           ELSE [db |-> D, loc |-> [L EXCEPT !.pc = "update_booking"]]
      [] L.pc = "update_booking" ->
           IF fail THEN [db |-> D, loc |-> [L EXCEPT !.pc = "done", !.resp = Resp(500, "error")]]
           ELSE [db |-> [D EXCEPT !.bookings[b].status_id = StatusId(D.process_status, code)],
                 loc |-> IF code = "BOOKING_CONFIRMED"
                         THEN [L EXCEPT !.pc = "find_debtor"]
                         ELSE [L EXCEPT !.pc = "done", !.resp = Resp(200, "success")]]
      [] L.pc = "find_debtor" ->
           IF fail THEN inner
           ELSE LET found == DebtorsByPropertyEmailOwner(D, unit, email, req.caller)
                IN  IF found # <<>>
                    THEN [db |-> D, loc |-> [L EXCEPT !.pc = "update_debtor",
                                                      !.debtor_id = found[1],
                                                      !.debt = D.debtors[found[1]].debt_amount]]
                    ELSE [db |-> D, loc |-> [L EXCEPT !.pc = "insert_debtor"]]
      [] L.pc = "update_debtor" ->
           IF fail THEN inner
           ELSE [db |-> [D EXCEPT !.debtors[L.debtor_id] =
                            [@ EXCEPT !.monthly_rent = UnitMonthlyRent[unit],
                                      !.debt_amount = L.debt,
                                      !.status = "current"]],
                 loc |-> [L EXCEPT !.pc = "done", !.resp = Resp(200, "success")]]
      [] L.pc = "insert_debtor" ->
           IF fail THEN inner
           ELSE [db |-> [D EXCEPT !.debtors = Append(@,
                            NewDebtor(unit, email, req.caller, UnitMonthlyRent[unit],
                                      UnitMonthlyRent[unit], "current"))],
                 loc |-> [L EXCEPT !.pc = "done", !.resp = Resp(200, "success")]]
      [] OTHER -> [db |-> D, loc |-> L]

BookCalls == {"find_booking", "update_booking", "find_debtor", "update_debtor",
              "insert_debtor"}

-----------------------------------------------------------------------------
(* payments.create_payment *)

PayStart(req) ==
    [op |-> "create_payment", pc |-> "find_property", req |-> req,
     debtor_id |-> NoId, existing |-> NoId, debt |-> 0, payment_id |-> NoId,
     resp |-> Resp(0, "none")]

\* debtor_update of the existing debtor, from the debt_amount that was read:
\* the debt is reduced and floored at zero
PayDebtorUpdate(row, debt, amount) ==
    [row EXCEPT !.monthly_rent = 0,
                !.debt_amount = Max(0, debt - amount),
                !.status = IF debt - amount <= 0 THEN "current" ELSE "overdue"]

\* One database call (with the Python around it) of create_payment.
PayStep(D, L, fail) ==
    LET req == L.req
        unit == req.property
        email == UserEmail[req.user]
        answer(http, st) == [db |-> D, loc |-> [L EXCEPT !.pc = "done", !.resp = Resp(http, st)]]
        outer == [db |-> D, loc |-> [L EXCEPT !.pc = "done", !.resp = Resp(500, "error")]]
        \* except Exception as e: logged, the payment stands
        inner == [db |-> D, loc |-> [L EXCEPT !.pc = "done", !.resp = Resp(200, "success")]]
    IN
    CASE L.pc = "find_property" ->
           IF fail THEN outer
           ELSE IF unit \notin Units THEN answer(404, "error")
           ELSE IF UnitOwner[unit] # req.caller THEN answer(403, "error")
           ELSE IF req.user \notin Users THEN answer(404, "error")
           ELSE [db |-> D, loc |-> [L EXCEPT !.pc = "find_debtor"]]
      [] L.pc = "find_debtor" ->
           IF fail THEN outer
           ELSE LET found == DebtorsByPropertyEmail(D, unit, email)
                IN  IF found # <<>>
                    THEN [db |-> D, loc |-> [L EXCEPT !.pc = "insert_payment",
                                                      !.debtor_id = found[1]]]
                    ELSE [db |-> D, loc |-> [L EXCEPT !.pc = "insert_debtor"]]
      [] L.pc = "insert_debtor" ->
           IF fail THEN outer
           ELSE [db |-> [D EXCEPT !.debtors = Append(@,
                            NewDebtor(unit, email, req.user, 0, 0, "current"))],
                 loc |-> [L EXCEPT !.pc = "insert_payment",
                                   !.debtor_id = Len(D.debtors) + 1]]
      [] L.pc = "insert_payment" ->
           IF fail THEN outer
           ELSE [db |-> [D EXCEPT !.payments = Append(@,
                            NewPayment(L.debtor_id, req.amount,
                                       StatusId(D.process_status, "PENDING"), "manual", NoId))],
                 loc |-> [L EXCEPT !.pc = "insert_details",
                                   !.payment_id = Len(D.payments) + 1]]
      [] L.pc = "insert_details" ->
           IF fail THEN outer
           ELSE [db |-> [D EXCEPT !.payment_details = Append(@,
                            [payment_id |-> L.payment_id, external_reference |-> "manual"])],
                 loc |-> [L EXCEPT !.pc = "find_existing"]]
      [] L.pc = "find_existing" ->
           IF fail THEN inner
           ELSE LET found == DebtorsByPropertyEmailOwner(D, unit, email, req.caller)
                IN  IF found # <<>>
                    THEN [db |-> D, loc |-> [L EXCEPT !.pc = "update_debtor",
                                                      !.existing = found[1],
                                                      !.debt = D.debtors[found[1]].debt_amount]]
                    ELSE [db |-> D, loc |-> [L EXCEPT !.pc = "insert_owner_debtor"]]
      [] L.pc = "update_debtor" ->
           IF fail THEN inner
           ELSE [db |-> [D EXCEPT !.debtors[L.existing] = PayDebtorUpdate(@, L.debt, req.amount)],
                 loc |-> [L EXCEPT !.pc = "done", !.resp = Resp(200, "success")]]
      [] L.pc = "insert_owner_debtor" ->
           IF fail THEN inner
           ELSE [db |-> [D EXCEPT !.debtors = Append(@,
                            NewDebtor(unit, email, req.caller, 0, Max(0, 0 - req.amount),
                                      IF req.amount >= 0 THEN "current" ELSE "overdue"))],
                 loc |-> [L EXCEPT !.pc = "done", !.resp = Resp(200, "success")]]
      [] OTHER -> [db |-> D, loc |-> L]

PayCalls == {"find_property", "find_debtor", "insert_debtor", "insert_payment",
             "insert_details", "find_existing", "update_debtor", "insert_owner_debtor"}

-----------------------------------------------------------------------------
(* invoices.create_invoice *)

\* codes of the active rows of payment_methods: any code can be registered,
\* so a code PaymentService.providers does not hold can be active
ActiveMethods == Providers \cup {UnknownProvider}
\* a code with no active row in payment_methods
UnknownMethod == "cash"

CreateInvStart(req) ==
    [op |-> "create_invoice", pc |-> "find_payment", req |-> req,
     invoice |-> NoId, exc |-> "none", resp |-> Resp(0, "none")]

\* One database or provider call (with the Python around it) of create_invoice.
CreateInvStep(D, L, fail) ==
    LET req == L.req
        answer(http, st) == [db |-> D, loc |-> [L EXCEPT !.pc = "done", !.resp = Resp(http, st)]]
        outer == [db |-> D, loc |-> [L EXCEPT !.pc = "done", !.resp = Resp(500, "error")]]
    IN
    CASE L.pc = "find_payment" ->
           IF fail THEN outer
           ELSE IF req.payment \notin 1..Len(D.payments) THEN answer(404, "error")
           ELSE IF req.method \notin ActiveMethods THEN answer(404, "error")
           ELSE [db |-> D, loc |-> [L EXCEPT !.pc = "insert_invoice"]]
      [] L.pc = "insert_invoice" ->
           IF fail THEN outer
           ELSE [db |-> [D EXCEPT !.invoices = Append(@,
                            [payment_id |-> req.payment, amount |-> D.payments[req.payment].amount,
                             origin |-> req.method, status |-> "PENDING", paid_at |-> NoId,
                             \* expires_at = now + 24 hours: one tick of the clock
                             expires_at |-> D.now + 1,
                             external_url |-> FALSE])],
                 loc |-> [L EXCEPT !.pc = "create_payment_url",
                                   !.invoice = Len(D.invoices) + 1]]
      [] L.pc = "create_payment_url" ->
           \* PaymentService.create_payment_url: ValueError for an origin that
           \* is no provider, else the provider's API call and its update of
           \* external_id
           IF D.invoices[L.invoice].origin \notin Providers
           THEN [db |-> D, loc |-> [L EXCEPT !.pc = "done", !.exc = "ValueError",
                                             !.resp = Resp(500, "error")]]
           ELSE IF fail THEN outer
           ELSE [db |-> D, loc |-> [L EXCEPT !.pc = "update_invoice_url"]]
      [] L.pc = "update_invoice_url" ->
           IF fail THEN outer
           ELSE [db |-> [D EXCEPT !.invoices[L.invoice].external_url = TRUE],
                 loc |-> [L EXCEPT !.pc = "done", !.resp = Resp(201, "success")]]
      [] OTHER -> [db |-> D, loc |-> L]

CreateInvCalls == {"find_payment", "insert_invoice", "create_payment_url",
                   "update_invoice_url"}

-----------------------------------------------------------------------------
(* webhooks.izipay_webhook: one iZIPay event against one Booking *)

\* booking_public_id from order_id: the part after 'ALQ-', else the order_id
\* itself (an order_id of another format names no booking)
IziExtractBookingPublicId(order) == order.ref

\* new_payment_status from payment_status: None ("NULL") for every value
\* the handler has no branch for
IziNewPaymentStatus(payment_status) ==
    CASE payment_status = "finished"  -> "PAID"
      [] payment_status = "failed"    -> "FAILED"
      [] payment_status = "cancelled" -> "CANCELLED"
      [] OTHER                        -> "NULL"

\* new_booking_status from payment_status
IziNewBookingStatus(catalog, payment_status) ==
    CASE payment_status = "finished"  -> StatusId(catalog, "BOOKING_CONFIRMED")
      [] payment_status = "failed"    -> StatusId(catalog, "BOOKING_CANCELLED")
      [] payment_status = "cancelled" -> StatusId(catalog, "BOOKING_CANCELLED")
      [] OTHER                        -> "NULL"

\* update_data applied to the booking row
IziUpdateBooking(catalog, row, payment_status) ==
    LET nb == IziNewBookingStatus(catalog, payment_status)
    IN  [row EXCEPT !.payment_status = IziNewPaymentStatus(payment_status),
                    !.status_id = IF nb # "NULL" THEN nb ELSE @]

IziStart(req) ==
    [op |-> "izipay_webhook", pc |-> "find_booking", req |-> req,
     booking |-> "NULL", debtor_id |-> NoId, user_debtor_id |-> NoId,
     payment_id |-> NoId, resp |-> Resp(0, "none")]

\* One database call (with the Python around it) of izipay_webhook.
IziStep(D, L, fail) ==
    LET req == L.req
        b == L.booking
        guest == BookingGuest[b]
        unit == BookingUnit[b]
        email == UserEmail[guest]
        goto(pc) == [db |-> D, loc |-> [L EXCEPT !.pc = pc]]
        \* except HTTPException as e: raise e
        answer(http) == [db |-> D, loc |-> [L EXCEPT !.pc = "done", !.resp = Resp(http, "error")]]
        \* except Exception as e: raise HTTPException(500)
        outer == answer(500)
        \* except Exception as payment_error: logged, the handler returns success
        done == [db |-> D, loc |-> [L EXCEPT !.pc = "done", !.resp = Resp(200, "success")]]
    IN
    CASE L.pc = "find_booking" ->
           IF fail THEN outer
           ELSE LET id == IziExtractBookingPublicId(req.order)
                IN  IF id \notin DOMAIN D.bookings THEN answer(404)
                    ELSE [db |-> D, loc |-> [L EXCEPT !.pc = "update_booking", !.booking = id]]
      [] L.pc = "update_booking" ->
           IF fail THEN outer
           ELSE LET upd == [D EXCEPT !.bookings[b] =
                              IziUpdateBooking(D.process_status, @, req.payment_status)]
                IN  IF req.payment_status = "finished"
                    THEN [db |-> upd, loc |-> [L EXCEPT !.pc = "find_debtor"]]
                    ELSE [db |-> upd,
                          loc |-> [L EXCEPT !.pc = "done", !.resp = Resp(200, "success")]]
      [] L.pc = "find_debtor" ->
           IF fail THEN done
           ELSE LET found == DebtorsByPropertyEmail(D, unit, email)
                IN  IF found # <<>>
                    THEN [db |-> D, loc |-> [L EXCEPT !.pc = "find_user_debtor",
                                                      !.debtor_id = found[1]]]
                    ELSE goto("insert_debtor")
      [] L.pc = "insert_debtor" ->
           IF fail THEN done
           ELSE [db |-> [D EXCEPT !.debtors = Append(@,
                            NewDebtor(unit, email, UnitOwner[unit], BookingTotal[b], 0, "current"))],
                 loc |-> [L EXCEPT !.pc = "find_user_debtor",
                                   !.debtor_id = Len(D.debtors) + 1]]
      [] L.pc = "find_user_debtor" ->
           IF fail THEN done
           ELSE LET found == DebtorsByPropertyEmailOwner(D, unit, email, guest)
                IN  IF found # <<>>
                    THEN [db |-> D, loc |-> [L EXCEPT !.pc = "insert_payment",
                                                      !.user_debtor_id = found[1]]]
                    ELSE goto("insert_user_debtor")
      [] L.pc = "insert_user_debtor" ->
           IF fail THEN done
           ELSE [db |-> [D EXCEPT !.debtors = Append(@,
                            NewDebtor(unit, email, guest, BookingTotal[b], 0, "current"))],
                 loc |-> [L EXCEPT !.pc = "insert_payment",
                                   !.user_debtor_id = Len(D.debtors) + 1]]
      [] L.pc = "insert_payment" ->
           IF L.debtor_id = NoId THEN done
           ELSE IF fail THEN done
           ELSE [db |-> [D EXCEPT !.payments = Append(@,
                            NewPayment(L.debtor_id, req.amount,
                                       StatusId(D.process_status, "PAID"), req.order.ref, D.now))],
                 loc |-> [L EXCEPT !.pc = "insert_details",
                                   !.payment_id = Len(D.payments) + 1]]
      [] L.pc = "insert_details" ->
           IF fail THEN done
           ELSE LET ins == [D EXCEPT !.payment_details = Append(@,
                              [payment_id |-> L.payment_id, external_reference |-> req.order.ref])]
                IN  \* if user_debtor_id and user_debtor_id != debtor_id
                    IF L.user_debtor_id # NoId /\ L.user_debtor_id # L.debtor_id
                    THEN [db |-> ins, loc |-> [L EXCEPT !.pc = "insert_user_payment"]]
                    ELSE [db |-> ins,
                          loc |-> [L EXCEPT !.pc = "done", !.resp = Resp(200, "success")]]
      [] L.pc = "insert_user_payment" ->
           IF fail THEN done
           ELSE [db |-> [D EXCEPT !.payments = Append(@,
                            NewPayment(L.user_debtor_id, req.amount,
                                       StatusId(D.process_status, "PAID"), req.order.ref, D.now))],
                 loc |-> [L EXCEPT !.pc = "insert_user_details",
                                   !.payment_id = Len(D.payments) + 1]]
      [] L.pc = "insert_user_details" ->
           IF fail THEN done
           ELSE [db |-> [D EXCEPT !.payment_details = Append(@,
                            [payment_id |-> L.payment_id, external_reference |-> req.order.ref])],
                 loc |-> [L EXCEPT !.pc = "done", !.resp = Resp(200, "success")]]
      [] OTHER -> [db |-> D, loc |-> L]

IziCalls == {"find_booking", "update_booking", "find_debtor", "insert_debtor",
             "find_user_debtor", "insert_user_debtor", "insert_payment",
             "insert_details", "insert_user_payment", "insert_user_details"}

-----------------------------------------------------------------------------
(* invoices.update_invoice *)

\* a field of InvoiceUpdate the request body does not set
Unset == "UNSET"

UpdateInvStart(req) ==
    [op |-> "update_invoice", pc |-> "find_invoice", req |-> req,
     resp |-> Resp(0, "none")]

\* UPDATE invoices SET <the fields the body sets>
UpdateInvRow(row, req) ==
    [row EXCEPT !.status = IF req.status # Unset THEN req.status ELSE @,
                !.external_url = IF req.external_url THEN TRUE ELSE @]

\* One database call (with the Python around it) of update_invoice.
UpdateInvStep(D, L, fail) ==
    LET req == L.req
        answer(http, st) == [db |-> D, loc |-> [L EXCEPT !.pc = "done", !.resp = Resp(http, st)]]
    IN
    CASE L.pc = "find_invoice" ->
           IF fail THEN answer(500, "error")
           ELSE IF req.invoice \notin 1..Len(D.invoices) THEN answer(404, "error")
           ELSE IF req.status = Unset /\ ~req.external_url THEN answer(400, "error")
           ELSE [db |-> D, loc |-> [L EXCEPT !.pc = "update_invoice_row"]]
      [] L.pc = "update_invoice_row" ->
           IF fail THEN answer(500, "error")
           ELSE [db |-> [D EXCEPT !.invoices[req.invoice] = UpdateInvRow(@, req)],
                 loc |-> [L EXCEPT !.pc = "done", !.resp = Resp(200, "success")]]
      [] OTHER -> [db |-> D, loc |-> L]

UpdateInvCalls == {"find_invoice", "update_invoice_row"}

-----------------------------------------------------------------------------
(* payments.approve_payment and payments.reject_payment *)

\* the process_status code the payment is set to
ReviewCode(op) == IF op = "approve_payment" THEN "PAID" ELSE "FAILED"

ApproveStart(req) ==
    [op |-> "approve_payment", pc |-> "find_payment", req |-> req,
     resp |-> Resp(0, "none")]

RejectStart(req) ==
    [op |-> "reject_payment", pc |-> "find_payment", req |-> req,
     resp |-> Resp(0, "none")]

\* One database call (with the Python around it) of approve_payment or
\* reject_payment: the two differ in the code they look up.
ReviewStep(D, L, fail) ==
    LET req == L.req
        answer(http, st) == [db |-> D, loc |-> [L EXCEPT !.pc = "done", !.resp = Resp(http, st)]]
    IN
    CASE L.pc = "find_payment" ->
           IF fail THEN answer(500, "error")
           \* select('*, debtors!inner(owner_id)'): the payment with its debtor
           ELSE IF \/ req.payment \notin 1..Len(D.payments)
                   \/ D.payments[req.payment].debtor_id \notin 1..Len(D.debtors)
                THEN answer(404, "error")
           ELSE IF D.debtors[D.payments[req.payment].debtor_id].owner_id # req.caller
                THEN answer(403, "error")
           ELSE IF StatusId(D.process_status, ReviewCode(L.op)) = "NULL"
                THEN answer(500, "error")
           ELSE [db |-> D, loc |-> [L EXCEPT !.pc = "update_payment"]]
      [] L.pc = "update_payment" ->
           IF fail THEN answer(500, "error")
           ELSE [db |-> [D EXCEPT !.payments[req.payment].status_id =
                            StatusId(D.process_status, ReviewCode(L.op))],
                 loc |-> [L EXCEPT !.pc = "done", !.resp = Resp(200, "success")]]
      [] OTHER -> [db |-> D, loc |-> L]

ReviewCalls == {"find_payment", "update_payment"}

-----------------------------------------------------------------------------
(* debtors.create_debtor and debtors.complete_rental *)

CreateDebtorStart(req) ==
    [op |-> "create_debtor", pc |-> "insert_debtor", req |-> req,
     resp |-> Resp(0, "none")]

\* One database call (with the Python around it) of create_debtor.
CreateDebtorStep(D, L, fail) ==
    LET req == L.req
    IN
    CASE L.pc = "insert_debtor" ->
           IF fail THEN [db |-> D, loc |-> [L EXCEPT !.pc = "done", !.resp = Resp(500, "error")]]
           ELSE [db |-> [D EXCEPT !.debtors = Append(@,
                            NewDebtor(req.property, req.email, req.caller,
                                      req.monthly_rent, 0, "current"))],
                 loc |-> [L EXCEPT !.pc = "done", !.resp = Resp(200, "success")]]
      [] OTHER -> [db |-> D, loc |-> L]

CreateDebtorCalls == {"insert_debtor"}

\* if debtor.get('debt_amount', 0) > 0, with the test never taken
NeverOutstanding(row) == FALSE

\* if debtor.get('debt_amount', 0) > 0
HasOutstandingDebt(row) == row.debt_amount > 0

CompleteStart(req) ==
    [op |-> "complete_rental", pc |-> "find_debtor", req |-> req,
     resp |-> Resp(0, "none")]

\* One database call (with the Python around it) of complete_rental.
CompleteStep(D, L, fail) ==
    LET req == L.req
        answer(http, st) == [db |-> D, loc |-> [L EXCEPT !.pc = "done", !.resp = Resp(http, st)]]
    IN
    CASE L.pc = "find_debtor" ->
           IF fail THEN answer(500, "error")
           \* select('*').eq('id', debtor_id).eq('owner_id', user_id)
           ELSE IF \/ req.debtor \notin 1..Len(D.debtors)
                   \/ D.debtors[req.debtor].owner_id # req.caller
                THEN answer(404, "error")
           ELSE IF HasOutstandingDebt(D.debtors[req.debtor]) THEN answer(400, "error")
           ELSE [db |-> D, loc |-> [L EXCEPT !.pc = "update_debtor"]]
      [] L.pc = "update_debtor" ->
           IF fail THEN answer(500, "error")
           ELSE [db |-> [D EXCEPT !.debtors[req.debtor].status = "completed"],
                 loc |-> [L EXCEPT !.pc = "done", !.resp = Resp(200, "success")]]
      [] OTHER -> [db |-> D, loc |-> L]

CompleteCalls == {"find_debtor", "update_debtor"}

-----------------------------------------------------------------------------
(* A handler run to completion.  failAt is the database call that raises   *)
(* ("none": no call raises); a call raises at most once in a run.          *)

Step(D, L, fail) ==
    CASE L.op = "nowpayments_webhook"   -> NowStep(D, L, fail)
      [] L.op = "handle_webhook"        -> InvStep(D, L, fail)
      [] L.op = "update_booking_status" -> BookStep(D, L, fail)
      [] L.op = "create_payment"        -> PayStep(D, L, fail)
      [] L.op = "create_invoice"        -> CreateInvStep(D, L, fail)
      [] L.op = "izipay_webhook"        -> IziStep(D, L, fail)
      [] L.op = "update_invoice"        -> UpdateInvStep(D, L, fail)
      [] L.op = "approve_payment"       -> ReviewStep(D, L, fail)
      [] L.op = "reject_payment"        -> ReviewStep(D, L, fail)
      [] L.op = "create_debtor"         -> CreateDebtorStep(D, L, fail)
      [] L.op = "complete_rental"       -> CompleteStep(D, L, fail)

CallsOf(op) ==
    CASE op = "nowpayments_webhook"   -> NowCalls
      [] op = "handle_webhook"        -> InvCalls
      [] op = "update_booking_status" -> BookCalls
      [] op = "create_payment"        -> PayCalls
      [] op = "create_invoice"        -> CreateInvCalls
      [] op = "izipay_webhook"        -> IziCalls
      [] op = "update_invoice"        -> UpdateInvCalls
      [] op = "approve_payment"       -> ReviewCalls
      [] op = "reject_payment"        -> ReviewCalls
      [] op = "create_debtor"         -> CreateDebtorCalls
      [] op = "complete_rental"       -> CompleteCalls

RECURSIVE RunFrom(_, _, _, _)
RunFrom(D, L, failAt, raised) ==
    IF L.pc = "done" THEN [db |-> D, loc |-> L, raised |-> raised]
    ELSE LET r == Step(D, L, failAt = L.pc)
         IN  RunFrom(r.db, r.loc, IF failAt = L.pc THEN "none" ELSE failAt,
                     raised \/ failAt = L.pc)

Run(D, L, failAt) == RunFrom(D, L, failAt, FALSE)

-----------------------------------------------------------------------------
(* Requests *)

\* amount and authenticity of a delivery: the signature material is valid
\* or not; no handler reads it
Shapes == {[amount |-> a, sig_valid |-> TRUE] : a \in Amounts}
              \cup {[amount |-> 10000, sig_valid |-> FALSE]}
DefaultShape == [amount |-> 10000, sig_valid |-> TRUE]

NowRequests ==
    {[order |-> o, payment_status |-> st, amount |-> sh.amount, sig_valid |-> sh.sig_valid] :
        o \in DeliveredOrders, st \in {"finished"}, sh \in Shapes}
    \cup
    {[order |-> o, payment_status |-> st, amount |-> DefaultShape.amount,
      sig_valid |-> DefaultShape.sig_valid] :
        o \in DeliveredOrders, st \in NowStatuses \ {"finished"}}

\* order_id values of a payload: the public id of an invoice there is, a
\* public id no invoice carries, or no order_id at all
InvOrders(D) == (1..Len(D.invoices)) \cup {UnknownInvoice, NoId}

InvRequests(D) ==
    {[provider |-> "nowpayments", order |-> o, payment_status |-> st, amount |-> sh.amount,
      sig_valid |-> sh.sig_valid] :
        o \in InvOrders(D), st \in {"finished"}, sh \in Shapes}
    \cup
    {[provider |-> p, order |-> o, payment_status |-> st, amount |-> DefaultShape.amount,
      sig_valid |-> DefaultShape.sig_valid] :
        p \in {"nowpayments"}, o \in InvOrders(D), st \in InvStatuses \ {"finished"}}
    \cup
    {[provider |-> p, order |-> o, payment_status |-> "finished",
      amount |-> DefaultShape.amount, sig_valid |-> DefaultShape.sig_valid] :
        p \in {"mercadopago", "izipay", UnknownProvider}, o \in {UnknownInvoice, NoId}}

BookRequests ==
    {[booking |-> b, status |-> st, caller |-> c] :
        b \in {"bkg_1", UnknownId},
        st \in {"APPROVED", "CANCELLED", "COMPLETED", "PENDING", "BOGUS"}, c \in Users}

PayRequests ==
    {[property |-> u, user |-> w, amount |-> a, caller |-> c] :
        u \in Units, w \in Users, a \in PayAmounts, c \in Users}

UnknownPayment == 9
CreateInvRequests(D) ==
    {[payment |-> k, method |-> m] :
        k \in (1..Len(D.payments)) \cup {UnknownPayment},
        m \in {"nowpayments", UnknownProvider, UnknownMethod}}

-----------------------------------------------------------------------------
(* State machine *)

Workers == {1, 2}
Idle == [op |-> "idle", pc |-> "done"]

\* what PaymentService did in a run: the exception it raised, the adapter's
\* returned status and new_status, and the adapter's execute_query calls
NoOutcome == [exc |-> "none", result |-> "none", new_status |-> "none", writes |-> 0]
Outcome(L) ==
    CASE L.op = "handle_webhook" ->
           [exc |-> L.exc, result |-> L.result, new_status |-> L.new_status,
            writes |-> L.writes]
      [] L.op = "create_invoice" -> [NoOutcome EXCEPT !.exc = L.exc]
      [] OTHER -> NoOutcome

InitLedger ==
    /\ process_status = AllStatusCodes
    /\ bookings = [b \in BookingIds |->
                     [payment_status |-> "PENDING", status_id |-> "BOOKING_PENDING"]]
    /\ debtors = <<>>
    /\ payments = <<>>
    /\ payment_details = <<>>
    /\ notifications = <<>>
    /\ invoices = <<>>
    /\ webhook_logs = <<>>
    /\ now = 1
    /\ procs = [w \in Workers |-> Idle]
    /\ last = [op |-> "none", req |-> "none", resp |-> Resp(0, "none"), raised |-> FALSE,
               failAt |-> "none", service |-> NoOutcome]

\* no database call raises
Init == InitLedger /\ faults = 0

\* up to MaxFaults database calls raise
InitFaulty == InitLedger /\ faults = MaxFaults

SetDB(D) ==
    /\ bookings' = D.bookings
    /\ debtors' = D.debtors
    /\ payments' = D.payments
    /\ payment_details' = D.payment_details
    /\ notifications' = D.notifications
    /\ invoices' = D.invoices
    /\ webhook_logs' = D.webhook_logs
    /\ UNCHANGED process_status

\* the calls that may raise in the next run
FailChoices(op) == {"none"} \cup (IF faults > 0 THEN CallsOf(op) ELSE {})

\* one handler, entered with local state L0, run to completion at time now
Handle(L0, failAt) ==
    LET r == Run(DB, L0, failAt)
    IN  /\ failAt # "none" => r.raised
        /\ SetDB(r.db)
        /\ now' = now + 1
        /\ last' = [op |-> L0.op, req |-> L0.req, resp |-> r.loc.resp, raised |-> r.raised,
                    failAt |-> failAt, service |-> Outcome(r.loc)]
        /\ faults' = IF r.raised THEN faults - 1 ELSE faults
        /\ UNCHANGED procs

NowpaymentsWebhook ==
    /\ now <= MaxOps
    /\ \E req \in NowRequests, failAt \in FailChoices("nowpayments_webhook") :
          Handle(NowStart(req), failAt)

UpdateBookingStatus ==
    /\ now <= MaxOps
    /\ \E req \in BookRequests, failAt \in FailChoices("update_booking_status") :
          Handle(BookStart(req), failAt)

HandleWebhook ==
    /\ now <= MaxInvOps
    /\ \E req \in InvRequests(DB), failAt \in FailChoices("handle_webhook") :
          Handle(InvStart(req), failAt)

CreatePayment ==
    /\ now <= MaxInvOps
    /\ \E req \in PayRequests, failAt \in FailChoices("create_payment") :
          Handle(PayStart(req), failAt)

CreateInvoice ==
    /\ now <= MaxInvOps
    /\ \E req \in CreateInvRequests(DB), failAt \in FailChoices("create_invoice") :
          Handle(CreateInvStart(req), failAt)

\* the deliveries to izipay_webhook: the same order references, statuses
\* and amounts as to nowpayments_webhook
IziRequests == NowRequests

IzipayWebhook ==
    /\ now <= MaxOps
    /\ \E req \in IziRequests, failAt \in FailChoices("izipay_webhook") :
          Handle(IziStart(req), failAt)

\* bodies of PUT /invoices/{public_id}: no field, external_url, or a status
UpdateInvRequests(D) ==
    {[invoice |-> i, status |-> st, external_url |-> u] :
        i \in (1..Len(D.invoices)) \cup {UnknownInvoice},
        st \in {Unset, "PAID", "PENDING"}, u \in {FALSE}}
    \cup
    {[invoice |-> i, status |-> Unset, external_url |-> TRUE] :
        i \in 1..Len(D.invoices)}

UpdateInvoice ==
    /\ now <= MaxInvOps
    /\ \E req \in UpdateInvRequests(DB), failAt \in FailChoices("update_invoice") :
          Handle(UpdateInvStart(req), failAt)

ReviewRequests(D) ==
    {[payment |-> k, caller |-> c] :
        k \in (1..Len(D.payments)) \cup {UnknownPayment}, c \in Users}

ApprovePayment ==
    /\ now <= MaxInvOps
    /\ \E req \in ReviewRequests(DB), failAt \in FailChoices("approve_payment") :
          Handle(ApproveStart(req), failAt)

RejectPayment ==
    /\ now <= MaxInvOps
    /\ \E req \in ReviewRequests(DB), failAt \in FailChoices("reject_payment") :
          Handle(RejectStart(req), failAt)

\* a user registers the guest as a tenant of the unit
CreateDebtorRequests ==
    {[property |-> u, email |-> UserEmail["guest"], monthly_rent |-> UnitMonthlyRent[u],
      caller |-> c] : u \in Units, c \in Users}

CreateDebtor ==
    /\ now <= MaxInvOps
    /\ \E req \in CreateDebtorRequests, failAt \in FailChoices("create_debtor") :
          Handle(CreateDebtorStart(req), failAt)

\* a debtor id no row carries
UnknownDebtor == 9

CompleteRequests(D) ==
    {[debtor |-> k, caller |-> c] :
        k \in (1..Len(D.debtors)) \cup {UnknownDebtor}, c \in Users}

CompleteRental ==
    /\ now <= MaxInvOps
    /\ \E req \in CompleteRequests(DB), failAt \in FailChoices("complete_rental") :
          Handle(CompleteStart(req), failAt)

\* the booking path
Next ==
    \/ NowpaymentsWebhook
    \/ UpdateBookingStatus

\* the invoice path
NextInv ==
    \/ CreatePayment
    \/ CreateInvoice
    \/ HandleWebhook

Spec == Init /\ [][Next]_vars

SpecFaulty == InitFaulty /\ [][Next]_vars

SpecInv == Init /\ [][NextInv]_vars

\* the invoice path from the state one create_payment leaves: the owner has
\* registered a payment of the guest, every later step creates an invoice
\* or handles a delivery
FirstPayment == [property |-> "unt_1", user |-> "guest", amount |-> 10000, caller |-> "owner"]

\* the tables before any operation
EmptyLedger ==
    [process_status |-> AllStatusCodes,
     bookings |-> [b \in BookingIds |->
                     [payment_status |-> "PENDING", status_id |-> "BOOKING_PENDING"]],
     debtors |-> <<>>, payments |-> <<>>, payment_details |-> <<>>,
     notifications |-> <<>>, invoices |-> <<>>, webhook_logs |-> <<>>,
     now |-> 1]

AfterFirstPayment == Run(EmptyLedger, PayStart(FirstPayment), "none")

\* a NOWPayments invoice is then created for that payment
FirstInvoice == [payment |-> 1, method |-> "nowpayments"]

AfterFirstInvoice == Run(AfterFirstPayment.db, CreateInvStart(FirstInvoice), "none")

\* the variables hold what the run r left
StartAfter(r) ==
    /\ process_status = AllStatusCodes
    /\ bookings = r.db.bookings
    /\ debtors = r.db.debtors
    /\ payments = r.db.payments
    /\ payment_details = r.db.payment_details
    /\ notifications = r.db.notifications
    /\ invoices = r.db.invoices
    /\ webhook_logs = r.db.webhook_logs
    /\ now = 1
    /\ procs = [w \in Workers |-> Idle]
    /\ last = [op |-> r.loc.op, req |-> r.loc.req, resp |-> r.loc.resp,
               raised |-> FALSE, failAt |-> "none", service |-> Outcome(r.loc)]

InitOnePayment == StartAfter(AfterFirstPayment) /\ faults = 0

\* one payment with one pending invoice; up to MaxFaults database calls raise
InitOneInvoice == StartAfter(AfterFirstInvoice) /\ faults = MaxFaults

NextPaid ==
    \/ CreateInvoice
    \/ HandleWebhook

SpecPaid == InitOnePayment /\ [][NextPaid]_vars

\* the two booking webhooks
NextBooking ==
    \/ NowpaymentsWebhook
    \/ IzipayWebhook

SpecBooking == Init /\ [][NextBooking]_vars

\* the invoice path with the invoice update endpoint
NextUpdate ==
    \/ CreateInvoice
    \/ HandleWebhook
    \/ UpdateInvoice

SpecUpdate == InitOnePayment /\ [][NextUpdate]_vars

\* deliveries to handle_webhook in which database calls may raise
NextAudit ==
    /\ now <= MaxAuditOps
    /\ HandleWebhook

SpecAudit == InitOneInvoice /\ [][NextAudit]_vars

\* deliveries to nowpayments_webhook in which database calls may raise
NextNotify ==
    /\ now <= MaxDeliveries
    /\ NowpaymentsWebhook

SpecNotify == InitFaulty /\ [][NextNotify]_vars

\* the operations that create and change debtors and manual payments
NextDebt ==
    \/ CreateDebtor
    \/ UpdateBookingStatus
    \/ CreatePayment
    \/ ApprovePayment
    \/ RejectPayment
    \/ CompleteRental

SpecDebt == Init /\ [][NextDebt]_vars

-----------------------------------------------------------------------------
(* Concurrent deliveries: each worker takes one delivery of the booking    *)
(* webhook and runs it one database call at a time.                        *)

ConcRequests ==
    {[order |-> o, payment_status |-> st, amount |-> DefaultShape.amount,
      sig_valid |-> DefaultShape.sig_valid] :
        o \in {[prefix |-> "", ref |-> "bkg_1"], [prefix |-> "ALQ", ref |-> "unt_1"]},
        st \in {"finished", "failed"}}

Deliver(w) ==
    /\ procs[w].op = "idle"
    /\ \E req \in ConcRequests : procs' = [procs EXCEPT ![w] = NowStart(req)]
    /\ UNCHANGED <<process_status, bookings, debtors, payments, payment_details,
                   notifications, invoices, webhook_logs, now, last, faults>>

WorkerStep(w) ==
    /\ procs[w].op # "idle"
    /\ procs[w].pc # "done"
    /\ LET r == Step(DB, procs[w], FALSE)
       IN  /\ SetDB(r.db)
           /\ procs' = [procs EXCEPT ![w] = r.loc]
           /\ last' = IF r.loc.pc = "done"
                      THEN [op |-> r.loc.op, req |-> r.loc.req, resp |-> r.loc.resp,
                            raised |-> FALSE, failAt |-> "none", service |-> Outcome(r.loc)]
                      ELSE last
    /\ UNCHANGED <<now, faults>>

NextConc == \E w \in Workers : Deliver(w) \/ WorkerStep(w)

SpecConc == Init /\ [][NextConc]_vars

-----------------------------------------------------------------------------
(* Properties *)

WebhookOps == {"nowpayments_webhook", "handle_webhook"}

\* the rows a reconciliation may write
Ledger == <<bookings, debtors, payments, payment_details, notifications, invoices>>

\* this step is a completed run of handler op
Handled(op) == now' = now + 1 /\ last'.op = op

\* the Booking an order reference of the booking webhook resolves to
TargetBooking(order) == ExtractBookingPublicId(DB, order)

TerminalStatuses == {"PAID", "FAILED", "EXPIRED", "CANCELLED"}

\* paid is within 0.5% of amount
WithinTolerance(paid, amount) ==
    /\ (amount - paid) * 1000 <= 5 * amount
    /\ (paid - amount) * 1000 <= 5 * amount

\* C1: a webhook event processed a second time, right after the first, is a
\* no-op: the terminal status and every debt_amount stay, and no Payment,
\* payment_details, Debtor or Notification row is added.
C1_RedeliveryIsNoOp ==
    [][ (/\ last.op \in WebhookOps
         /\ Handled(last.op)
         /\ last'.req = last.req)
        => Ledger' = Ledger ]_vars

\* C2: once an invoice is PAID, FAILED, EXPIRED or CANCELLED no later step
\* changes its status.
C2_TerminalInvoiceStays ==
    [][ \A i \in 1..Len(invoices) :
          invoices[i].status \in TerminalStatuses
            => invoices'[i].status = invoices[i].status ]_vars

\* the payment rows a booking event with reference ref inserted for debtor d
DebitsFor(ref, d) ==
    {k \in 1..Len(payments) : payments[k].reference = ref /\ payments[k].debtor_id = d}

NotificationsFor(ref) ==
    {k \in 1..Len(notifications) : notifications[k].payment = ref}

\* C3: two concurrent deliveries of the same PAID event leave exactly one
\* debit (one Payment row per debtor) and exactly one Notification.
C3_ConcurrentDeliveriesDebitOnce ==
    (/\ \A w \in Workers : procs[w].op = "nowpayments_webhook" /\ procs[w].pc = "done"
     /\ procs[1].req = procs[2].req
     /\ procs[1].req.payment_status = "finished")
    => /\ \A d \in 1..Len(debtors) : Cardinality(DebitsFor(procs[1].req.order.ref, d)) <= 1
       /\ Cardinality(NotificationsFor(procs[1].req.order.ref)) = 1

\* the debtors of the guest of booking b on its unit
IsPayerDebtor(row, b) ==
    row.property_id = BookingUnit[b] /\ row.email = UserEmail[BookingGuest[b]]

\* C4: a successful PAID event with paid amount a leaves the payer's
\* debt_amount at max(0, debt_amount - a); a failed or cancelled event
\* leaves every debt_amount as it was.
C4_DebtConservation ==
    [][ (Handled("nowpayments_webhook") /\ last'.resp.http = 200)
        => LET b == TargetBooking(last'.req.order)
               a == last'.req.amount
           IN  /\ Len(debtors') >= Len(debtors)
               /\ \A k \in 1..Len(debtors) :
                    IF last'.req.payment_status = "finished" /\ IsPayerDebtor(debtors[k], b)
                    THEN debtors'[k].debt_amount = Max(0, debtors[k].debt_amount - a)
                    ELSE debtors'[k].debt_amount = debtors[k].debt_amount ]_vars

\* C5: no delivery is acknowledged as success with a partly applied
\* ledger: a booking set to PAID by the event has its Payment row.
C5_NoPartialSuccess ==
    (/\ last.op = "nowpayments_webhook"
     /\ last.resp.http = 200
     /\ last.req.payment_status = "finished")
    => \E k \in 1..Len(payments) :
          /\ payments[k].reference = last.req.order.ref
          /\ payments[k].status_id = "PAID"

\* C6: one PAID event with the invoice's amount on a PENDING invoice leaves
\* the Invoice PAID, its Payment PAID, a Booking PAID, the payer's debt
\* reduced by the amount and one Notification more.
C6_HappyPath ==
    [][ \A i \in 1..Len(invoices) :
          (/\ Handled("handle_webhook")
           /\ last'.req.provider = "nowpayments"
           /\ last'.req.order = i
           /\ last'.req.payment_status = "finished"
           /\ last'.req.amount = invoices[i].amount
           /\ invoices[i].status = "PENDING")
          => LET p == invoices[i].payment_id
                 d == payments[p].debtor_id
             IN  /\ invoices'[i].status = "PAID"
                 /\ payments'[p].status_id = "PAID"
                 /\ \E b \in BookingIds : bookings'[b].payment_status = "PAID"
                 /\ debtors'[d].debt_amount =
                       Max(0, debtors[d].debt_amount - last'.req.amount)
                 /\ Len(notifications') = Len(notifications) + 1 ]_vars

\* C7: a booking or an invoice moves to PAID only on an event whose paid
\* amount is within the tolerance of its amount.
C7_PaidOnlyWithinTolerance ==
    [][ /\ \A b \in BookingIds :
             (bookings[b].payment_status # "PAID" /\ bookings'[b].payment_status = "PAID")
               => WithinTolerance(last'.req.amount, BookingTotal[b])
        /\ \A i \in 1..Len(invoices) :
             (invoices[i].status # "PAID" /\ invoices'[i].status = "PAID")
               => WithinTolerance(last'.req.amount, invoices[i].amount) ]_vars

\* the order reference of the delivery is missing or matches no Booking
UnknownReference(req) ==
    LET b == TargetBooking(req.order) IN b = "NULL" \/ b \notin DOMAIN bookings

\* C8: an event whose order reference is missing or matches no target is
\* acknowledged as ignored, not as an error, and changes no ledger row.
C8_UnknownReferenceIgnored ==
    [][ (Handled("nowpayments_webhook") /\ UnknownReference(last'.req))
        => /\ last'.resp.http < 400
           /\ last'.resp.status # "error"
           /\ Ledger' = Ledger ]_vars

\* C9: after every completed webhook or booking status update, a booking
\* whose payment_status is PAID has its process status at BOOKING_CONFIRMED.
C9_PaidMeansConfirmed ==
    last.op \in {"nowpayments_webhook", "update_booking_status"}
    => \A b \in BookingIds :
          bookings[b].payment_status = "PAID"
            => bookings[b].status_id = "BOOKING_CONFIRMED"

\* C10: a delivery whose signature is not authentic is answered with a
\* client error and changes no ledger row.
C10_BadSignatureRejected ==
    [][ (/\ \E op \in WebhookOps : Handled(op)
         /\ ~last'.req.sig_valid)
        => /\ last'.resp.http \in 400..499
           /\ Ledger' = Ledger ]_vars

\* C14: at most one invoice of a Payment is PAID.
C14_OnePaidInvoicePerPayment ==
    \A i, j \in 1..Len(invoices) :
        (/\ invoices[i].status = "PAID"
         /\ invoices[j].status = "PAID"
         /\ invoices[i].payment_id = invoices[j].payment_id)
        => i = j

\* the delivery just handled names no Booking (booking webhook) or no
\* Invoice (invoice webhook)
ReferenceUnknown ==
    IF last'.op = "nowpayments_webhook"
    THEN UnknownReference(last'.req)
    ELSE last'.req.order \notin 1..Len(invoices)

\* C11: the HTTP status of a webhook response carries retry intent: a run in
\* which a database call raised is answered 5xx, and a delivery with an
\* unknown or malformed order reference is answered with a non-5xx status.
C11_StatusCarriesRetryIntent ==
    [][ (\E op \in WebhookOps : Handled(op))
        => /\ last'.raised => last'.resp.http \in 500..599
           /\ (~last'.raised /\ ReferenceUnknown) => last'.resp.http \notin 500..599 ]_vars

\* C12: the acknowledgment body of the invoice webhook tells three outcomes
\* apart by its status: "processed" for an applied event, "ignored" for an
\* unknown reference, "error" for a processing failure.
C12_AckDistinguishesOutcomes ==
    [][ (Handled("handle_webhook") /\ last'.req.provider = "nowpayments")
        => last'.resp.status =
             (IF last'.service.exc # "none" THEN "error"
              ELSE IF ReferenceUnknown THEN "ignored"
              ELSE "processed") ]_vars

\* C13: every webhook delivery, on every endpoint, leaves one more audit
\* record in webhook_logs, and the record was updated when processing
\* finished (processed, or an error message).
C13_EveryDeliveryAudited ==
    [][ (\E op \in WebhookOps : Handled(op))
        => /\ Len(webhook_logs') = Len(webhook_logs) + 1
           /\ LET rec == webhook_logs'[Len(webhook_logs')]
              IN  rec.processed \/ rec.error_message ]_vars

\* C15: every Debtor has debt_amount >= 0 and a status that derives from
\* it: with a debt it is neither current nor completed, without one it is
\* not overdue.
C15_DebtorStatusFollowsDebt ==
    \A k \in 1..Len(debtors) :
        /\ debtors[k].debt_amount >= 0
        /\ debtors[k].debt_amount > 0 => debtors[k].status \notin {"current", "completed"}
        /\ debtors[k].debt_amount = 0 => debtors[k].status # "overdue"

\* C16: under every interleaving of PAID deliveries an existing debtor is
\* found by the look-up and reused: no two Debtor rows agree on the
\* look-up key (property, payer email, and the owner_id the second look-up
\* adds).
C16_DebtorNeverDuplicated ==
    \A i, j \in 1..Len(debtors) :
        (/\ debtors[i].property_id = debtors[j].property_id
         /\ debtors[i].email = debtors[j].email
         /\ debtors[i].owner_id = debtors[j].owner_id)
        => i = j

\* C17: an EXPIRED invoice stays EXPIRED, whatever event arrives for it (a
\* PAID event is rejected), and expiration never overrides another terminal
\* status.
C17_ExpirationIsFinal ==
    [][ \A i \in 1..Len(invoices) :
          /\ invoices[i].status = "EXPIRED" => invoices'[i].status = "EXPIRED"
          /\ invoices[i].status \in TerminalStatuses \ {"EXPIRED"}
                => invoices'[i].status # "EXPIRED" ]_vars

\* this step is a delivery to the NOWPayments adapter for invoice i, in
\* which no call raised
AdapterRan(i) ==
    /\ Handled("handle_webhook")
    /\ last'.req.provider = "nowpayments"
    /\ last'.req.order = i
    /\ ~last'.raised

\* C18: NOWPaymentsProvider.process_webhook on an existing invoice: a
\* 'finished' event makes exactly two writes (the invoice PAID with paid_at,
\* its payment PAID with the same paid_at) and returns 'processed' with
\* new_status PAID; a 'failed' event makes exactly one write (the invoice
\* FAILED, the payment untouched) and returns new_status FAILED.
C18_AdapterWrites ==
    [][ \A i \in 1..Len(invoices) :
          AdapterRan(i)
          => LET pid == invoices[i].payment_id
                 st  == last'.req.payment_status
                 out == last'.service
             IN  /\ st = "finished"
                      => /\ out.result = "processed" /\ out.new_status = "PAID"
                         /\ out.writes = 2
                         /\ invoices' = [invoices EXCEPT ![i].status = "PAID",
                                                         ![i].paid_at = now]
                         /\ payments' = [payments EXCEPT ![pid].status_id = "PAID",
                                                         ![pid].paid_at = now]
                         /\ invoices'[i].paid_at = payments'[pid].paid_at
                 /\ st = "failed"
                      => /\ out.result = "processed" /\ out.new_status = "FAILED"
                         /\ out.writes = 1
                         /\ invoices' = [invoices EXCEPT ![i].status = "FAILED"]
                         /\ payments' = payments
                 /\ UNCHANGED <<bookings, debtors, payment_details, notifications>> ]_vars

\* a 'failed' event was just processed for an invoice whose payment an
\* earlier 'finished' event had set to PAID
C18_Witness ==
    /\ last.op = "handle_webhook"
    /\ last.req.provider = "nowpayments"
    /\ last.req.payment_status = "failed"
    /\ last.service.result = "processed"
    /\ last.service.writes = 1
    /\ last.req.order \in 1..Len(invoices)
    /\ invoices[last.req.order].status = "FAILED"
    /\ invoices[last.req.order].paid_at # NoId
    /\ payments[invoices[last.req.order].payment_id].status_id = "PAID"
    /\ payments[invoices[last.req.order].payment_id].paid_at =
          invoices[last.req.order].paid_at

\* C19: PaymentService.process_webhook and create_payment_url raise
\* ValueError exactly for the provider names other than mercadopago, izipay
\* and nowpayments, and then the service reads and changes nothing: the
\* ledger is as the caller left it.
C19_UnknownProviderRaises ==
    [][ /\ Handled("handle_webhook")
          => IF last'.req.provider \notin {"mercadopago", "izipay", "nowpayments"}
             THEN /\ last'.service.exc = "ValueError"
                  /\ last'.service.writes = 0
                  /\ last'.service.result = "none"
                  /\ Ledger' = Ledger
             ELSE last'.service.exc # "ValueError"
        /\ (Handled("create_invoice") /\ last'.resp.http \notin {404})
          => IF last'.req.method \notin {"mercadopago", "izipay", "nowpayments"}
             THEN /\ last'.service.exc = "ValueError"
                  /\ Len(invoices') = Len(invoices) + 1
                  /\ invoices'[Len(invoices')].status = "PENDING"
                  /\ ~invoices'[Len(invoices')].external_url
                  /\ \A i \in 1..Len(invoices) : invoices'[i] = invoices[i]
                  /\ UNCHANGED <<bookings, debtors, payments, payment_details,
                                 notifications>>
             ELSE last'.service.exc # "ValueError" ]_vars

\* create_payment_url has just raised ValueError for an invoice of an
\* unknown provider, after a delivery for an unknown provider was logged
\* with its error
C19_Witness ==
    /\ last.op = "create_invoice"
    /\ last.req.method = UnknownProvider
    /\ last.service.exc = "ValueError"
    /\ \E k \in 1..Len(webhook_logs) :
          webhook_logs[k].provider = UnknownProvider /\ webhook_logs[k].error_message

\* C20: a failed or expired event is mirrored onto the linked Payment and
\* the linked Booking: afterwards Invoice, Payment and Booking agree on the
\* non-paid terminal value.
C20_FailureMirrored ==
    [][ \A i \in 1..Len(invoices) :
          (AdapterRan(i) /\ last'.req.payment_status \in {"failed", "expired"})
          => LET pid  == invoices[i].payment_id
                 term == InvNewStatus(last'.req.payment_status)
             IN  /\ invoices'[i].status = term
                 /\ payments'[pid].status_id = term
                 /\ \E b \in BookingIds : bookings'[b].payment_status = term ]_vars

\* C21: when emitting the notification of a 'finished' event fails, the
\* Booking, Payment and Debtor updates the event already applied are kept as
\* the run without the failure leaves them, no notification is added, and
\* the webhook is acknowledged as success.
C21_NotificationFailureKept ==
    [][ (Handled("nowpayments_webhook") /\ last'.failAt = "notify")
        => LET applied == Run(DB, NowStart(last'.req), "none").db
               b == TargetBooking(last'.req.order)
           IN  /\ last'.resp = Resp(200, "success")
               /\ bookings' = applied.bookings
               /\ debtors' = applied.debtors
               /\ payments' = applied.payments
               /\ last'.req.payment_status = "finished"
                    => /\ bookings'[b].payment_status = "PAID"
                       /\ Len(payments') > Len(payments)
               /\ payment_details' = applied.payment_details
               /\ notifications' = notifications ]_vars

\* the notification of a 'finished' event for bkg_1 has just failed: the
\* booking is PAID and has its Payment rows, and there is no notification
C21_Witness ==
    /\ last.op = "nowpayments_webhook"
    /\ last.failAt = "notify"
    /\ last.resp.http = 200
    /\ bookings["bkg_1"].payment_status = "PAID"
    /\ Len(payments) = 2
    /\ notifications = <<>>

\* C22: an invoice's status is changed only by webhook reconciliation (no
\* expiration sweep exists): no other operation, the invoice update
\* endpoint included, changes the status of an invoice, and no operation
\* removes an invoice row.
C22_StatusOnlyByReconciliation ==
    [][ /\ Len(invoices') >= Len(invoices)
        /\ \A i \in 1..Len(invoices) :
             invoices'[i].status # invoices[i].status => last'.op = "handle_webhook" ]_vars

\* C23: provider adapters only normalise: while handle_webhook runs, the
\* adapter it dispatches to makes no write, and the Invoice and Payment rows
\* are as they were when the adapter returns.
C23_AdaptersNeverWrite ==
    [][ Handled("handle_webhook")
        => /\ last'.service.writes = 0
           /\ invoices' = invoices
           /\ payments' = payments ]_vars

\* the booking webhooks
BookingWebhookOps == {"nowpayments_webhook", "izipay_webhook"}

\* payment_status has no branch in the handler's mapping
Unmapped(op, payment_status) ==
    IF op = "nowpayments_webhook"
    THEN payment_status \notin {"finished", "failed", "cancelled", "confirming"}
    ELSE payment_status \notin {"finished", "failed", "cancelled"}

\* C24: a booking webhook whose payment_status the handler does not map
\* leaves the booking's payment_status and status_id as they were, on the
\* NOWPayments and on the iZIPay endpoint.
C24_UnmappedStatusChangesNothing ==
    [][ \A op \in BookingWebhookOps :
          (Handled(op) /\ Unmapped(op, last'.req.payment_status))
          => bookings' = bookings ]_vars

\* C25: once a booking is PAID and BOOKING_CONFIRMED, no later booking
\* webhook for it ('confirming', 'failed', 'cancelled', ...) changes its
\* payment_status or its status_id.
C25_PaidBookingStays ==
    [][ \A b \in BookingIds :
          (/\ bookings[b].payment_status = "PAID"
           /\ bookings[b].status_id = "BOOKING_CONFIRMED"
           /\ \E op \in BookingWebhookOps : Handled(op))
          => bookings'[b] = bookings[b] ]_vars

\* the Payment rows this step inserted for debtor d
InsertedFor(d) ==
    {k \in (Len(payments) + 1)..Len(payments') : payments'[k].debtor_id = d}

\* C26: one 'finished' booking webhook inserts at most one Payment row per
\* debtor, on both handlers, also when the guest is the owner of the unit
\* and both debtor look-ups find the same row.
C26_OnePaymentPerDebtor ==
    [][ \A op \in BookingWebhookOps :
          (Handled(op) /\ last'.req.payment_status = "finished")
          => \A d \in 1..Len(debtors') : Cardinality(InsertedFor(d)) <= 1 ]_vars

\* the Payment row create_payment has just inserted
NewPaymentRow == payments'[Len(payments')]

\* this step lowered the debt_amount of debtor k
DebtReduced(k) == debtors'[k].debt_amount < debtors[k].debt_amount

\* C27: in create_payment the Debtor whose debt_amount is reduced is the
\* Debtor row the inserted Payment references through debtor_id.
C27_DebitedDebtorIsPaymentDebtor ==
    [][ (Handled("create_payment") /\ Len(payments') = Len(payments) + 1)
        => \A k \in 1..Len(debtors) :
              DebtReduced(k) => NewPaymentRow.debtor_id = k ]_vars

\* C28: a debt_amount is reduced only for a payment that is PAID: the step
\* that lowers a debt is a create_payment whose Payment is PAID, and
\* approve_payment and reject_payment leave every debt_amount as it was.
C28_DebtReducedOnlyWhenPaid ==
    [][ /\ \A k \in 1..Len(debtors) :
             DebtReduced(k)
             => /\ last'.op = "create_payment"
                /\ Len(payments') = Len(payments) + 1
                /\ NewPaymentRow.status_id = "PAID"
        /\ (Handled("approve_payment") \/ Handled("reject_payment"))
             => debtors' = debtors ]_vars

\* C29: when handle_webhook returns for a delivery whose audit record was
\* inserted, the record is either processed with no error_message (nothing
\* raised: the adapter returned, an 'ignored' result included) or not
\* processed with an error_message (the service or a database write
\* raised), never neither and never both; earlier records are untouched.
C29_AuditRecordFinalState ==
    [][ (/\ Handled("handle_webhook")
         /\ Len(webhook_logs') = Len(webhook_logs) + 1
         /\ last'.resp.http = 200)
        => LET rec == webhook_logs'[Len(webhook_logs')]
           IN  /\ rec.processed # rec.error_message
               /\ rec.processed <=> last'.service.exc = "none"
               /\ rec.processed => last'.service.result \in {"processed", "ignored"}
               /\ \A k \in 1..Len(webhook_logs) : webhook_logs'[k] = webhook_logs[k] ]_vars

\* the payment update of a 'finished' delivery has just raised and its
\* record carries the error, after a delivery that was ignored and whose
\* record is processed
C29_Witness ==
    /\ last.op = "handle_webhook"
    /\ last.failAt = "update_payment"
    /\ last.resp.http = 200
    /\ Len(webhook_logs) = 2
    /\ webhook_logs[1].processed /\ ~webhook_logs[1].error_message
    /\ ~webhook_logs[2].processed /\ webhook_logs[2].error_message

\* C30: complete_rental sets a debtor to 'completed' only when the debtor
\* is the caller's and its debt_amount is 0; with debt_amount > 0 it answers
\* 400, for a missing debtor or another owner's 404, and in both cases the
\* debtor rows stay as they were.
C30_CompleteRental ==
    [][ Handled("complete_rental")
        => LET d == last'.req.debtor
               owned == d \in 1..Len(debtors) /\ debtors[d].owner_id = last'.req.caller
           IN  /\ IF ~owned
                  THEN last'.resp.http = 404 /\ debtors' = debtors
                  ELSE IF debtors[d].debt_amount > 0
                  THEN last'.resp.http = 400 /\ debtors' = debtors
                  ELSE /\ last'.resp.http = 200
                       /\ debtors' = [debtors EXCEPT ![d].status = "completed"]
               /\ UNCHANGED <<bookings, payments, payment_details, invoices>> ]_vars

\* the owner has just completed the rental of a tenant whose debt a payment
\* had cleared
C30_Witness ==
    /\ last.op = "complete_rental"
    /\ last.resp.http = 200
    /\ last.req.debtor \in 1..Len(debtors)
    /\ debtors[last.req.debtor].status = "completed"
    /\ debtors[last.req.debtor].debt_amount = 0
    /\ debtors[last.req.debtor].owner_id = "owner"
    /\ \E k \in 1..Len(payments) : payments[k].debtor_id = last.req.debtor

====
